---- MODULE Spec2Model ----
(***************************************************************************)
(* State-machine model of the run-commands executor                        *)
(* (packages/workspace/src/executors/run-commands/run-commands.impl.ts).   *)
(*                                                                         *)
(* The executor runs on one JavaScript event loop.  Every promise reaction *)
(* (a .then/.catch/.finally callback, the continuation of an await) is a   *)
(* job on the FIFO microtask queue mq; events of the outside world (a task *)
(* promise settling, a child process printing or closing) are separate     *)
(* actions that may happen between any two jobs.                           *)
(*                                                                         *)
(* JavaScript falsy option values (undefined, 0, "") are identified with   *)
(* "absent": maxConcurrency = 0 and readyWhen = FALSE stand for them.      *)
(***************************************************************************)
EXTENDS Integers, Sequences, FiniteSets, TLC

\* ---- bounds of the model ------------------------------------------------
MaxItems == 3
MaxConc == 2

\* names of the items / commands, by input position
Names == <<"c1", "c2", "c3", "c4", "c5">>

\* values a task of the direct pool call may fulfil with
TaskResults == {"r1", "r2"}

NoVal == "none"

VARIABLES
    caller,             \* who called pool: "direct" (direct call) or "run"
    n,                  \* collection.length
    maxConcurrency,     \* 0 = not provided
    poolPc,             \* position of the pool() coroutine
    mutableCollection,  \* indices still queued
    cur,                \* [t, i] of the current loop iteration (0 = none)
    available,
    done,
    listeners,          \* the Set of ready() listeners, in insertion order
    results,            \* Array<[R, number]>
    finalPromise,
    values,             \* Promise.all's result slots (unbounded branch)
    remaining,          \* Promise.all's count of unfulfilled elements
    task,               \* state of the promise returned by task(t, i)
    taskVal,            \* value (or error) that promise settled with
    mq,                 \* the microtask queue
    poolOut,            \* the promise returned by pool()
    startOrder,         \* history: indices in the order task() was called
    firstSettled,       \* history: the task that settled first (0 = none)
    firstRejected,      \* history: the task that rejected first (0 = none)
    startedAtReject,    \* history: <<items started or granted a slot, items
                        \* started, items waiting for a slot>>
                        \* when a rejection first set done
    given,              \* history: the options as the caller passed them
    opts,               \* the options object of the executor
    runPc,              \* position of the default-exported function
    runOut,             \* what the executor returned or threw
    proc,               \* child processes, by command position
    procLog,            \* history: process start / exit events in order
    warnings,           \* warnings written to process.stderr
    raceOut,            \* the promise Promise.race(procs)
    render              \* a call of transformCommand: its arguments, its result

poolVars == <<n, maxConcurrency, poolPc, mutableCollection, cur, available,
              done, listeners, results, finalPromise, values, remaining,
              poolOut, startedAtReject>>
taskVars == <<task, taskVal, startOrder, firstSettled, firstRejected>>
runVars == <<given, opts, runPc, runOut, proc, procLog, warnings, raceOut>>
vars == <<caller, render, poolVars, taskVars, mq, runVars>>

Pending == [st |-> "pending", val |-> <<>>]
Resolved(v) == [st |-> "resolved", val |-> v]
Rejected(e) == [st |-> "rejected", val |-> e]

Job(t, i, ok) == [t |-> t, i |-> i, ok |-> ok]

\* the error a rejecting task of the direct pool call rejects with
TaskErr(i) == <<"task failed: ", Names[i]>>

\* the first of a kind of event keeps its place in the history
First(f, i) == IF f = 0 THEN i ELSE f

\* items whose `await ready()` has resolved and whose task is about to start
Granted == {mq[k].i : k \in {m \in DOMAIN mq : mq[m].t = "resume"}}

Running == {i \in 1..n : task[i] = "running"}
Started == {i \in 1..n : task[i] # "new"}

\* ---- promise primitives ---------------------------------------------------
\* resolve(v) / reject(e) of a promise: only the first settlement counts
RejectOverwrites(p, e) == Rejected(e)
RejectPromise(p, e) == IF p.st = "pending" THEN Rejected(e) ELSE p
ResolvePromise(p, v) == IF p.st = "pending" THEN Resolved(v) ELSE p

\* ---- pool: ready() and notify() ------------------------------------------
\* one call of a listener: [resolve, available] after it
ListenerNoDecrement(av, d) ==
    IF d THEN [resolve |-> TRUE, available |-> av]
    ELSE IF av > 0 THEN [resolve |-> TRUE, available |-> av]
    ELSE [resolve |-> FALSE, available |-> av]
ListenerAlwaysDecrements(av, d) ==
    IF d THEN [resolve |-> TRUE, available |-> av - 1]
    ELSE IF av > 0 THEN [resolve |-> TRUE, available |-> av - 1]
    ELSE [resolve |-> FALSE, available |-> av]
Listener(av, d) ==
    IF d THEN [resolve |-> TRUE, available |-> av]
    ELSE IF av > 0 THEN [resolve |-> TRUE, available |-> av - 1]
    ELSE [resolve |-> FALSE, available |-> av]

RECURSIVE NotifyRec(_, _, _, _, _)
NotifyRec(todo, av, d, kept, woken) ==
    IF todo = <<>>
    THEN [available |-> av, listeners |-> kept, resolved |-> woken]
    ELSE LET l == Head(todo)
             r == Listener(av, d)
         IN IF r.resolve
            THEN NotifyRec(Tail(todo), r.available, d, kept, Append(woken, l))
            ELSE NotifyRec(Tail(todo), r.available, d, Append(kept, l), woken)

\* notify(): call every registered listener, in insertion order
notify(ls, av, d) == NotifyRec(ls, av, d, <<>>, <<>>)

\* the continuations of `await ready()` that a notify() made runnable
RECURSIVE ResumeJobs(_)
ResumeJobs(woken) ==
    IF woken = <<>> THEN <<>>
    ELSE <<Job("resume", Head(woken), TRUE)>> \o ResumeJobs(Tail(woken))

\* ---- pool: the final sort ------------------------------------------------
RECURSIVE Insert(_, _)
Insert(p, s) ==
    IF s = <<>> THEN <<p>>
    ELSE IF p[2] < Head(s)[2] THEN <<p>> \o s
    ELSE <<Head(s)>> \o Insert(p, Tail(s))

RECURSIVE SortPairs(_)
SortPairs(s) == IF s = <<>> THEN <<>> ELSE Insert(Head(s), SortPairs(Tail(s)))

\* results.slice().sort(([, a], [, b]) => a - b).map(([r]) => r)
CompletionOrder(res) == [k \in 1..Len(res) |-> res[k][1]]
SortedResults(res) == LET s == SortPairs(res) IN [k \in 1..Len(s) |-> s[k][1]]

\* Promise.all's result: the slots in index order
AllResult(vals, len) == [k \in 1..len |-> vals[k]]


\* ---- child processes (createProcess) -------------------------------------
\* st: none / running / closed / execThrew; code: the exit code once closed;
\* hook: the process.on('exit') kill hook is registered for it; seen: a chunk
\* of its output contained the readiness marker (only when there is one)
NoProc == [st |-> "none", code |-> 0, hook |-> FALSE, seen |-> FALSE]
\* exec() returned a child: running, kill-on-exit hook registered
SpawnedNoHook == [st |-> "running", code |-> 0, hook |-> FALSE, seen |-> FALSE]
Spawned == [st |-> "running", code |-> 0, hook |-> TRUE, seen |-> FALSE]
\* exec() threw inside the promise executor: the promise rejects, no child
SpawnFailed ==
    [st |-> "execThrew", code |-> 0, hook |-> FALSE, seen |-> FALSE]

\* what the call task(t, i) can do to the child-process table
SpawnResults == IF caller = "run" THEN {Spawned, SpawnFailed} ELSE {NoProc}

\* the reaction that a settling task promise puts on the microtask queue
SettleJob(i, ok) ==
    IF caller = "run" /\ opts.readyWhen THEN Job("race", i, ok)
    ELSE IF maxConcurrency = 0 THEN Job("all", i, ok)
    ELSE Job("then", i, ok)

\* ---- pool: the while loop up to its next await ---------------------------
LoopIgnoresDone(mc, d) == mc = <<>>
LoopBreaks(mc, d) == mc = <<>> \/ d

LoopTop(mc, av, d, ls, fp, q) ==
    IF LoopBreaks(mc, d)
    THEN \* break; await finalPromise
         [mc |-> IF mc = <<>> THEN mc ELSE Tail(mc), cur |-> 0,
          available |-> av, listeners |-> ls, pc |-> "awaitFinal",
          mq |-> IF fp.st # "pending" THEN Append(q, Job("final", 0, TRUE))
                 ELSE q]
    ELSE \* await ready(): listeners.add(listener); notify()
         LET i == Head(mc)
             nt == notify(Append(ls, i), av, d)
         IN [mc |-> Tail(mc), cur |-> i, available |-> nt.available,
             listeners |-> nt.listeners, pc |-> "awaitReady",
             mq |-> q \o ResumeJobs(nt.resolved)]

\* the continuation of `await finalPromise` becomes runnable when the
\* promise settles while the coroutine is suspended on it
WakeFinalNever(fp, pc) == <<>>
WakeFinal(fp, pc) ==
    IF fp.st = "pending" /\ pc = "awaitFinal" THEN <<Job("final", 0, TRUE)>>
    ELSE <<>>

\* the caller's continuation of `await pool(...)`
WakeCaller == IF caller = "run" THEN <<Job("afterPool", 0, TRUE)>> ELSE <<>>

\* ---- pool: the call, up to the first await -------------------------------
\* collection.slice().map((t, i) => [t, i]): the items paired with their index
ReversedCollection(len) == [k \in 1..len |-> len + 1 - k]
IndexedCollection(len) == [k \in 1..len |-> k]

PoolEnter(q, len, maxc) ==
    /\ poolPc = "idle"
    /\ n' = len
    /\ maxConcurrency' = maxc
    /\ IF maxc = 0
       THEN \* return Promise.all(collection.map((item, i) => task(item, i)))
            /\ \E ps \in [1..len -> SpawnResults] :
                 proc' = [i \in DOMAIN proc |->
                            IF i \in 1..len THEN ps[i] ELSE proc[i]]
            /\ task' = [i \in DOMAIN task |->
                          IF i \in 1..len THEN "running" ELSE task[i]]
            /\ startOrder' = [k \in 1..len |-> k]
            /\ remaining' = len
            /\ IF len = 0
               THEN /\ poolOut' = Resolved(<<>>)
                    /\ poolPc' = "returned"
                    /\ mq' = q \o WakeCaller
               ELSE /\ poolPc' = "awaitAll"
                    /\ mq' = q
                    /\ UNCHANGED poolOut
            /\ UNCHANGED <<mutableCollection, cur, available, listeners>>
       ELSE IF len = 0
       THEN \* return []
            /\ poolOut' = Resolved(<<>>)
            /\ poolPc' = "returned"
            /\ mq' = q \o WakeCaller
            /\ UNCHANGED <<mutableCollection, cur, available, listeners,
                           remaining, task, startOrder, proc>>
       ELSE LET lt == LoopTop(IndexedCollection(len), maxc, FALSE, <<>>,
                              Pending, q)
            IN /\ mutableCollection' = lt.mc
               /\ cur' = lt.cur
               /\ available' = lt.available
               /\ listeners' = lt.listeners
               /\ poolPc' = lt.pc
               /\ mq' = lt.mq
               /\ UNCHANGED <<poolOut, remaining, task, startOrder, proc>>
    /\ UNCHANGED <<done, results, finalPromise, values, taskVal,
                   firstSettled, firstRejected,
                   startedAtReject>>

\* direct call pool({collection, task, maxConcurrency})
PoolCall ==
    /\ caller = "direct"
    /\ PoolEnter(mq, n, maxConcurrency)
    /\ UNCHANGED <<caller, render, given, opts, runPc, runOut, procLog, warnings,
                   raceOut>>

\* ---- pool: reactions on the microtask queue ------------------------------
\* .then((r) => { results.push([r, i]); available += 1; ... })
ThenJob ==
    /\ mq # <<>> /\ Head(mq).t = "then"
    /\ LET j == Head(mq) IN
       IF j.ok
       THEN LET res == Append(results, <<taskVal[j.i], j.i>>)
                full == Len(res) = n
            IN /\ results' = res
               /\ available' = available + 1
               /\ done' = (done \/ full)
               /\ finalPromise' = IF full THEN ResolvePromise(finalPromise, <<>>)
                                  ELSE finalPromise
               /\ mq' = Tail(mq)
                        \o (IF full THEN WakeFinal(finalPromise, poolPc) ELSE <<>>)
                        \o <<Job("catch", j.i, TRUE)>>
       ELSE /\ mq' = Append(Tail(mq), Job("catch", j.i, FALSE))
            /\ UNCHANGED <<results, available, done, finalPromise>>
    /\ UNCHANGED <<caller, render, n, maxConcurrency, poolPc, mutableCollection, cur,
                   listeners, values, remaining, poolOut, startedAtReject,
                   taskVars, runVars>>

\* .catch((e) => { done = true; globalReject(e); })
CatchJob ==
    /\ mq # <<>> /\ Head(mq).t = "catch"
    /\ LET j == Head(mq) IN
       IF j.ok
       THEN /\ mq' = Append(Tail(mq), Job("finally", j.i, TRUE))
            /\ UNCHANGED <<done, finalPromise, startedAtReject>>
       ELSE /\ done' = TRUE
            /\ startedAtReject' = IF startedAtReject = <<>>
                                  THEN <<Started \cup Granted, Started,
                                         {listeners[k] : k \in DOMAIN listeners}>>
                                  ELSE startedAtReject
            /\ finalPromise' = RejectPromise(finalPromise, taskVal[j.i])
            /\ mq' = Tail(mq) \o WakeFinal(finalPromise, poolPc)
                              \o <<Job("finally", j.i, TRUE)>>
    /\ UNCHANGED <<caller, render, n, maxConcurrency, poolPc, mutableCollection, cur,
                   available, listeners, results, values, remaining, poolOut,
                   taskVars, runVars>>

\* .finally(notify)
FinallyJob ==
    /\ mq # <<>> /\ Head(mq).t = "finally"
    /\ LET nt == notify(listeners, available, done) IN
         /\ available' = nt.available
         /\ listeners' = nt.listeners
         /\ mq' = Tail(mq) \o ResumeJobs(nt.resolved)
    /\ UNCHANGED <<caller, render, n, maxConcurrency, poolPc, mutableCollection, cur,
                   done, results, finalPromise, values, remaining, poolOut,
                   startedAtReject, taskVars, runVars>>

\* continuation of `await ready()`: task(t, i).then(..).catch(..).finally(..),
\* then the next iteration of the loop up to its await
ResumeJob ==
    /\ mq # <<>> /\ Head(mq).t = "resume"
    /\ LET i == Head(mq).i
           lt == LoopTop(mutableCollection, available, done, listeners,
                         finalPromise, Tail(mq))
       IN /\ task' = [task EXCEPT ![i] = "running"]
          /\ startOrder' = Append(startOrder, i)
          /\ \E p \in SpawnResults : proc' = [proc EXCEPT ![i] = p]
          /\ mutableCollection' = lt.mc
          /\ cur' = lt.cur
          /\ available' = lt.available
          /\ listeners' = lt.listeners
          /\ poolPc' = lt.pc
          /\ mq' = lt.mq
    /\ UNCHANGED <<caller, render, n, maxConcurrency, done, results, finalPromise,
                   values, remaining, poolOut, startedAtReject, taskVal,
                   firstSettled, firstRejected, given, opts, runPc, runOut, procLog,
                   warnings, raceOut>>

\* continuation of `await finalPromise`, and the sorted return
FinalJob ==
    /\ mq # <<>> /\ Head(mq).t = "final"
    /\ poolOut' = IF finalPromise.st = "resolved"
                  THEN Resolved(SortedResults(results))
                  ELSE Rejected(finalPromise.val)
    /\ poolPc' = "returned"
    /\ mq' = Tail(mq) \o WakeCaller
    /\ UNCHANGED <<caller, render, n, maxConcurrency, mutableCollection, cur,
                   available, done, listeners, results, finalPromise, values,
                   remaining, startedAtReject, taskVars, runVars>>

\* a reaction of Promise.all on element i (unbounded branch)
AllJob ==
    /\ mq # <<>> /\ Head(mq).t = "all"
    /\ LET j == Head(mq) IN
       IF j.ok
       THEN LET vals == [values EXCEPT ![j.i] = taskVal[j.i]] IN
            /\ values' = vals
            /\ remaining' = remaining - 1
            /\ IF remaining = 1 /\ poolOut.st = "pending"
               THEN /\ poolOut' = Resolved(AllResult(vals, n))
                    /\ poolPc' = "returned"
                    /\ mq' = Tail(mq) \o WakeCaller
               ELSE /\ mq' = Tail(mq)
                    /\ UNCHANGED <<poolOut, poolPc>>
       ELSE /\ IF poolOut.st = "pending"
               THEN /\ poolOut' = Rejected(taskVal[j.i])
                    /\ poolPc' = "returned"
                    /\ mq' = Tail(mq) \o WakeCaller
               ELSE /\ mq' = Tail(mq)
                    /\ UNCHANGED <<poolOut, poolPc>>
            /\ UNCHANGED <<values, remaining>>
    /\ UNCHANGED <<caller, render, n, maxConcurrency, mutableCollection, cur,
                   available, done, listeners, results, finalPromise,
                   startedAtReject, taskVars, runVars>>

\* ---- tasks of the direct pool call ---------------------------------------
\* the promise returned by task(t, i) fulfils with r
TaskFulfil(i, r) ==
    /\ caller = "direct"
    /\ task[i] = "running"
    /\ task' = [task EXCEPT ![i] = "fulfilled"]
    /\ taskVal' = [taskVal EXCEPT ![i] = r]
    /\ firstSettled' = First(firstSettled, i)
    /\ mq' = Append(mq, SettleJob(i, TRUE))
    /\ UNCHANGED <<caller, render, poolVars, startOrder, firstRejected, runVars>>

\* the promise returned by task(t, i) rejects
TaskReject(i) ==
    /\ caller = "direct"
    /\ task[i] = "running"
    /\ task' = [task EXCEPT ![i] = "rejected"]
    /\ taskVal' = [taskVal EXCEPT ![i] = TaskErr(i)]
    /\ firstSettled' = First(firstSettled, i)
    /\ firstRejected' = First(firstRejected, i)
    /\ mq' = Append(mq, SettleJob(i, FALSE))
    /\ UNCHANGED <<caller, render, poolVars, startOrder, runVars>>

\* ---- the direct pool call as a system -------------------------------------
Slots == 1..(MaxItems + 1)

\* no call of transformCommand
NoRender == [command |-> <<>>, args |-> <<>>, forwardAllArgs |-> FALSE,
             out |-> <<>>]

NoOpts == [command |-> FALSE, commands |-> 0, parallel |-> FALSE,
           maxParallel |-> 0, readyWhen |-> FALSE, envFile |-> "absent"]

PoolInit ==
    /\ caller = "direct"
    /\ n \in 0..MaxItems
    /\ maxConcurrency \in 0..MaxConc
    /\ poolPc = "idle"
    /\ mutableCollection = <<>>
    /\ cur = 0
    /\ available = 0
    /\ done = FALSE
    /\ listeners = <<>>
    /\ results = <<>>
    /\ finalPromise = Pending
    /\ values = [i \in Slots |-> NoVal]
    /\ remaining = 0
    /\ task = [i \in Slots |-> "new"]
    /\ taskVal = [i \in Slots |-> NoVal]
    /\ mq = <<>>
    /\ poolOut = Pending
    /\ startOrder = <<>>
    /\ firstSettled = 0
    /\ firstRejected = 0
    /\ startedAtReject = <<>>
    /\ given = NoOpts
    /\ opts = NoOpts
    /\ runPc = "idle"
    /\ runOut = Pending
    /\ proc = [i \in Slots |-> NoProc]
    /\ procLog = <<>>
    /\ warnings = <<>>
    /\ raceOut = Pending
    /\ render = NoRender

PoolNext ==
    \/ PoolCall
    \/ ThenJob
    \/ CatchJob
    \/ FinallyJob
    \/ ResumeJob
    \/ FinalJob
    \/ AllJob
    \/ \E i \in 1..n, r \in TaskResults : TaskFulfil(i, r)
    \/ \E i \in 1..n : TaskReject(i)

PoolSpec == PoolInit /\ [][PoolNext]_vars

\* The event loop runs every queued reaction, the caller does call the pool,
\* and every started task settles one way or the other.
PoolFairness ==
    /\ WF_vars(PoolCall)
    /\ WF_vars(ThenJob)
    /\ WF_vars(CatchJob)
    /\ WF_vars(FinallyJob)
    /\ WF_vars(ResumeJob)
    /\ WF_vars(FinalJob)
    /\ WF_vars(AllJob)
    /\ \A i \in Slots :
         WF_vars((\E r \in TaskResults : TaskFulfil(i, r)) \/ TaskReject(i))

PoolFairSpec == PoolInit /\ [][PoolNext]_vars /\ PoolFairness


\* ========================================================================
\* The executor (default export): options, modes, child processes
\* ========================================================================
ExitCodes == {0, 1}

\* ---- error messages --------------------------------------------------------
\* a message is the sequence of the pieces it is concatenated from
WrapPrefix == <<"ERROR: Something went wrong in @nrwl/run-commands - ">>
BadConfigPrefix == <<"ERROR: Bad builder config for @nrwl/run-commands - ">>
ReadyWhenError ==
    BadConfigPrefix \o <<"\"readyWhen\" can only be used when parallel=true">>
MaxParallelError ==
    BadConfigPrefix \o <<"\"maxParallel\" can only be used when parallel=true">>
\* result.error of dotenv's config({ path }) for an unreadable file
EnvFileError == <<"ENOENT: no such file or directory, open ", "envFile">>
\* the error execSync throws for a non-zero exit status
ExecSyncError(k) == <<"Command failed: ", Names[k]>>

HasPrefix(msg, pre) ==
    Len(msg) >= Len(pre) /\ SubSeq(msg, 1, Len(pre)) = pre

\* `ERROR: Something went wrong in @nrwl/run-commands - ${e.message}`
WrapDropsMessage(msg) == WrapPrefix
Wrap(msg) == WrapPrefix \o msg

Warning(c) == <<"Warning: @nrwl/run-commands command \"", c,
                "\" exited with non-zero status code">>

\* ---- options ---------------------------------------------------------------
\* loadEnvVars(path) throws only when a path is given and cannot be loaded
loadEnvVarsThrows(o) == o.envFile = "missing"

normalizeKeepsParallel(o) ==
    IF o.command THEN [o EXCEPT !.commands = 1] ELSE o
normalizeOptions(o) ==
    IF o.command THEN [o EXCEPT !.commands = 1, !.parallel = FALSE] ELSE o

\* the two checks after normalizeOptions; <<>> when both pass
ConfigErrorReadyWhenOnly(o) ==
    IF o.readyWhen /\ ~o.parallel THEN ReadyWhenError ELSE <<>>
ConfigError(o) ==
    IF o.readyWhen /\ ~o.parallel THEN ReadyWhenError
    ELSE IF o.maxParallel # 0 /\ ~o.parallel THEN MaxParallelError
    ELSE <<>>

\* which way a call of the executor goes
RunPath ==
    IF loadEnvVarsThrows(opts) THEN "env"
    ELSE LET o == normalizeOptions(opts) IN
         IF ConfigError(o) # <<>> THEN "config"
         ELSE IF ~o.parallel THEN "serial"
         ELSE IF o.readyWhen THEN "race"
         ELSE "pool"

Success(b) == Resolved([success |-> b])

\* ---- the call of the executor, up to its first suspension -----------------
\* loadEnvVars(options.envFile) throws
RunEnvFail ==
    /\ caller = "run" /\ runPc = "idle" /\ RunPath = "env"
    /\ runOut' = Rejected(EnvFileError)
    /\ runPc' = "threw"
    /\ UNCHANGED <<caller, render, poolVars, taskVars, mq, given, opts, proc, procLog,
                   warnings, raceOut>>

\* one of the two `throw new Error('ERROR: Bad builder config ...')`
RunBadConfig ==
    /\ caller = "run" /\ runPc = "idle" /\ RunPath = "config"
    /\ opts' = normalizeOptions(opts)
    /\ runOut' = Rejected(ConfigError(normalizeOptions(opts)))
    /\ runPc' = "threw"
    /\ UNCHANGED <<caller, render, poolVars, taskVars, mq, given, proc, procLog,
                   warnings, raceOut>>

\* runSerially(normalized) is entered; with no command it returns true
RunSerialStart ==
    /\ caller = "run" /\ runPc = "idle" /\ RunPath = "serial"
    /\ opts' = normalizeOptions(opts)
    /\ n' = opts'.commands
    /\ IF n' = 0
       THEN runOut' = Success(TRUE) /\ runPc' = "returned"
       ELSE runPc' = "serial" /\ UNCHANGED runOut
    /\ UNCHANGED <<caller, render, maxConcurrency, poolPc, mutableCollection, cur,
                   available, done, listeners, results, finalPromise, values,
                   remaining, poolOut, startedAtReject, taskVars, mq, given,
                   proc, procLog, warnings, raceOut>>

\* runInParallel with readyWhen: every command is handed to createProcess,
\* then `await Promise.race(procs)`
RunRaceStart ==
    /\ caller = "run" /\ runPc = "idle" /\ RunPath = "race"
    /\ opts' = normalizeOptions(opts)
    /\ n' = opts'.commands
    /\ \E ps \in [1..n' -> SpawnResults] :
         proc' = [i \in DOMAIN proc |-> IF i \in 1..n' THEN ps[i] ELSE proc[i]]
    /\ task' = [i \in DOMAIN task |-> IF i \in 1..n' THEN "running" ELSE task[i]]
    /\ startOrder' = [k \in 1..n' |-> k]
    /\ runPc' = "awaitRace"
    /\ UNCHANGED <<caller, render, maxConcurrency, poolPc, mutableCollection, cur,
                   available, done, listeners, results, finalPromise, values,
                   remaining, poolOut, startedAtReject, taskVal,
                   firstSettled, firstRejected,
                   mq, given, runOut, procLog, warnings, raceOut>>

\* runInParallel without readyWhen: `await pool({collection: commands,
\* maxConcurrency: maxParallel, task})`
RunPoolStart ==
    /\ caller = "run" /\ runPc = "idle" /\ RunPath = "pool"
    /\ opts' = normalizeOptions(opts)
    /\ PoolEnter(mq, opts'.commands, opts'.maxParallel)
    /\ runPc' = "awaitPool"
    /\ UNCHANGED <<caller, render, given, runOut, procLog, warnings, raceOut>>

\* ---- serial mode: execSync blocks the event loop ---------------------------
\* the command the for loop of runSerially is at
SerialIndex == Cardinality({i \in 1..n : proc[i].st = "closed"}) + 1

\* what happens after execSync of command k ended with `code`
SerialIgnoresStatus(code, k, len) == IF k < len THEN "next" ELSE "return"
SerialAfterExit(code, k, len) ==
    IF code # 0 THEN "throw" ELSE IF k < len THEN "next" ELSE "return"

\* createSyncProcess: execSync starts the child and waits for it
SerialSpawn ==
    /\ runPc = "serial"
    /\ SerialIndex <= n
    /\ proc[SerialIndex].st = "none"
    /\ proc' = [proc EXCEPT ![SerialIndex] =
                  [st |-> "running", code |-> 0, hook |-> FALSE,
                   seen |-> FALSE]]
    /\ procLog' = Append(procLog, [ev |-> "start", k |-> SerialIndex, code |-> 0])
    /\ UNCHANGED <<caller, render, poolVars, taskVars, mq, given, opts, runPc, runOut,
                   warnings, raceOut>>

\* the child exits: execSync returns, or throws for a non-zero status
SerialExit(code) ==
    /\ runPc = "serial"
    /\ SerialIndex <= n
    /\ proc[SerialIndex].st = "running"
    /\ LET k == SerialIndex
           after == SerialAfterExit(code, k, n)
       IN /\ proc' = [proc EXCEPT ![k].st = "closed", ![k].code = code]
          /\ procLog' = Append(procLog, [ev |-> "exit", k |-> k, code |-> code])
          /\ IF after = "throw"
             THEN runOut' = Rejected(Wrap(ExecSyncError(k))) /\ runPc' = "threw"
             ELSE IF after = "return"
             THEN runOut' = Success(TRUE) /\ runPc' = "returned"
             ELSE UNCHANGED <<runOut, runPc>>
    /\ UNCHANGED <<caller, render, poolVars, taskVars, mq, given, opts, warnings,
                   raceOut>>

\* ---- parallel modes: events of the children of createProcess --------------
\* the value the promise of createProcess resolves with, wrapped by
\* .then((result) => ({ result, command: c.command }))
Outcome(i, b) == [result |-> b, command |-> Names[i]]

\* what a chunk on stdout or stderr resolves the promise with, if anything
DataResolvesWithoutReadyWhen(readyWhen, marker) ==
    IF marker THEN <<TRUE>> ELSE <<>>
DataResolves(readyWhen, marker) ==
    IF readyWhen /\ marker THEN <<TRUE>> ELSE <<>>

\* what the 'close' event resolves the promise with, if anything
CloseResolves(readyWhen, code) ==
    IF ~readyWhen THEN <<code = 0>> ELSE <<>>

\* res(b): settles the task promise unless it is settled already
Res(i, r) ==
    IF r # <<>> /\ task[i] = "running"
    THEN /\ task' = [task EXCEPT ![i] = "fulfilled"]
         /\ taskVal' = [taskVal EXCEPT ![i] = Outcome(i, r[1])]
         /\ firstSettled' = First(firstSettled, i)
         /\ mq' = Append(mq, SettleJob(i, TRUE))
    ELSE UNCHANGED <<task, taskVal, firstSettled, mq>>

\* childProcess.stdout / stderr 'data': a chunk with or without the marker
ProcData(i, marker) ==
    /\ proc[i].st = "running" /\ proc[i].hook
    /\ proc' = [proc EXCEPT ![i].seen = @ \/ (opts.readyWhen /\ marker)]
    /\ Res(i, DataResolves(opts.readyWhen, marker))
    /\ UNCHANGED <<caller, render, poolVars, startOrder, firstRejected, given, opts,
                   runPc, runOut,
                   procLog, warnings, raceOut>>

\* childProcess 'close'
ProcClose(i, code) ==
    /\ proc[i].st = "running" /\ proc[i].hook
    /\ proc' = [proc EXCEPT ![i].st = "closed", ![i].code = code]
    /\ Res(i, CloseResolves(opts.readyWhen, code))
    /\ UNCHANGED <<caller, render, poolVars, startOrder, firstRejected, given, opts,
                   runPc, runOut,
                   procLog, warnings, raceOut>>

\* exec() threw in the executor of `new Promise`: the promise is rejected.
\* The rejection reaches the mode logic a few microtasks later; the model
\* lets it arrive at any later point.
ExecThrows(i) ==
    /\ runPc # "exited"
    /\ proc[i].st = "execThrew" /\ task[i] = "running"
    /\ task' = [task EXCEPT ![i] = "rejected"]
    /\ taskVal' = [taskVal EXCEPT ![i] = TaskErr(i)]
    /\ firstSettled' = First(firstSettled, i)
    /\ firstRejected' = First(firstRejected, i)
    /\ mq' = Append(mq, SettleJob(i, FALSE))
    /\ UNCHANGED <<caller, render, poolVars, startOrder, runVars>>

\* ---- parallel modes: reactions on the microtask queue ---------------------
\* Promise.race settles with the first element that settles
RaceLastWins(p, ok, v) == IF ok THEN Resolved(v) ELSE Rejected(v)
RaceSettle(p, ok, v) ==
    IF ok THEN ResolvePromise(p, v) ELSE RejectPromise(p, v)

\* a reaction of Promise.race(procs) on element i
RaceJob ==
    /\ mq # <<>> /\ Head(mq).t = "race"
    /\ LET j == Head(mq) IN
         /\ raceOut' = RaceSettle(raceOut, j.ok, taskVal[j.i])
         /\ mq' = IF raceOut.st = "pending"
                  THEN Append(Tail(mq), Job("afterRace", 0, TRUE))
                  ELSE Tail(mq)
    /\ UNCHANGED <<caller, render, poolVars, taskVars, given, opts, runPc, runOut,
                   proc, procLog, warnings>>

\* continuation of `await Promise.race(procs)`, and the try/catch around it
AfterRaceJob ==
    /\ mq # <<>> /\ Head(mq).t = "afterRace"
    /\ mq' = Tail(mq)
    /\ IF raceOut.st = "resolved"
       THEN /\ runOut' = Success(raceOut.val.result)
            /\ runPc' = "returned"
            /\ warnings' = IF ~raceOut.val.result
                           THEN Append(warnings, Warning(raceOut.val.command))
                           ELSE warnings
       ELSE /\ runOut' = Rejected(Wrap(raceOut.val))
            /\ runPc' = "threw"
            /\ UNCHANGED warnings
    /\ UNCHANGED <<caller, render, poolVars, taskVars, given, opts, proc, procLog,
                   raceOut>>

\* r.filter((v) => !v.result)
IsFailed(v) == ~v.result
FirstFailedOnly(r) ==
    LET f == SelectSeq(r, IsFailed) IN IF f = <<>> THEN f ELSE <<f[1]>>
Failed(r) == SelectSeq(r, IsFailed)

\* continuation of `await pool(...)`, and the try/catch around it
AfterPoolJob ==
    /\ mq # <<>> /\ Head(mq).t = "afterPool"
    /\ mq' = Tail(mq)
    /\ IF poolOut.st = "resolved"
       THEN LET failed == Failed(poolOut.val) IN
            /\ warnings' = warnings \o
                 [k \in 1..Len(failed) |-> Warning(failed[k].command)]
            /\ runOut' = Success(Len(failed) = 0)
            /\ runPc' = "returned"
       ELSE /\ runOut' = Rejected(Wrap(poolOut.val))
            /\ runPc' = "threw"
            /\ UNCHANGED warnings
    /\ UNCHANGED <<caller, render, poolVars, taskVars, given, opts, proc, procLog,
                   raceOut>>

\* ---- the orchestrator process exits ---------------------------------------
\* process.on('exit', () => childProcess.kill()): one listener per child of
\* createProcess, never removed
KillHooks(ps) ==
    [i \in DOMAIN ps |->
       IF ps[i].hook /\ ps[i].st = "running"
       THEN [ps[i] EXCEPT !.st = "killed"] ELSE ps[i]]

\* the run has returned or thrown and the process that hosts it exits: the
\* 'exit' listeners run and nothing queued runs any more
ParentExit ==
    /\ caller = "run"
    /\ runPc \in {"returned", "threw"}
    /\ runPc' = "exited"
    /\ proc' = KillHooks(proc)
    /\ mq' = <<>>
    /\ UNCHANGED <<caller, render, poolVars, taskVars, given, opts, runOut, procLog,
                   warnings, raceOut>>

\* ---- the executor as a system ---------------------------------------------
EnvFiles == {"absent", "ok", "missing"}

Options ==
    {o \in [command : BOOLEAN, commands : 0..MaxItems, parallel : BOOLEAN,
            maxParallel : 0..MaxConc, readyWhen : BOOLEAN, envFile : EnvFiles] :
       o.command => o.commands = 0}

Init ==
    /\ caller = "run"
    /\ given \in Options
    /\ opts = given
    /\ n = 0
    /\ maxConcurrency = 0
    /\ poolPc = "idle"
    /\ mutableCollection = <<>>
    /\ cur = 0
    /\ available = 0
    /\ done = FALSE
    /\ listeners = <<>>
    /\ results = <<>>
    /\ finalPromise = Pending
    /\ values = [i \in Slots |-> NoVal]
    /\ remaining = 0
    /\ task = [i \in Slots |-> "new"]
    /\ taskVal = [i \in Slots |-> NoVal]
    /\ mq = <<>>
    /\ poolOut = Pending
    /\ startOrder = <<>>
    /\ firstSettled = 0
    /\ firstRejected = 0
    /\ startedAtReject = <<>>
    /\ runPc = "idle"
    /\ runOut = Pending
    /\ proc = [i \in Slots |-> NoProc]
    /\ procLog = <<>>
    /\ warnings = <<>>
    /\ raceOut = Pending
    /\ render = NoRender

Next ==
    \/ RunEnvFail
    \/ RunBadConfig
    \/ RunSerialStart
    \/ RunRaceStart
    \/ RunPoolStart
    \/ SerialSpawn
    \/ \E code \in ExitCodes : SerialExit(code)
    \/ \E i \in 1..n, marker \in BOOLEAN : ProcData(i, marker)
    \/ \E i \in 1..n, code \in ExitCodes : ProcClose(i, code)
    \/ \E i \in 1..n : ExecThrows(i)
    \/ ThenJob
    \/ CatchJob
    \/ FinallyJob
    \/ ResumeJob
    \/ FinalJob
    \/ AllJob
    \/ RaceJob
    \/ AfterRaceJob
    \/ AfterPoolJob
    \/ ParentExit

Spec == Init /\ [][Next]_vars

\* ========================================================================
\* Command templating: transformCommand and camelCase
\* ========================================================================
\* A string is a sequence of symbols. "{args." is the six-character opening
\* of a placeholder, taken as one symbol; every other symbol is one character.
MaxCmdLen == 5
MaxArgs == 2

OpenArgs == "{args."
Symbols == {OpenArgs, "}", "a", "A", "-"}
Commands == UNION {[1..l -> Symbols] : l \in 0..MaxCmdLen}

\* the keys an argument map may hold, and the value it holds for each
Keys == {<<"a">>, <<"a", "A">>, <<"a", "-", "a">>}
ValueOf(key) ==
    IF key = <<"a">> THEN "v1" ELSE IF key = <<"a", "A">> THEN "v2" ELSE "v3"

\* an object with string keys: its pairs in insertion order, keys distinct
ArgMaps ==
    {[k \in DOMAIN ks |-> [key |-> ks[k], value |-> ValueOf(ks[k])]] :
       ks \in {m \in UNION {[1..l -> Keys] : l \in 0..MaxArgs} :
                 \A i, j \in DOMAIN m : i # j => m[i] # m[j]}}

CharLen(c) == IF c = OpenArgs THEN Len(<<"{", "a", "r", "g", "s", ".">>) ELSE 1

\* input.indexOf('-'): the character index of the first dash, -1 if none
RECURSIVE IndexOfDash(_, _)
IndexOfDash(s, at) ==
    IF s = <<>> THEN -1
    ELSE IF Head(s) = "-" THEN at
    ELSE IndexOfDash(Tail(s), at + CharLen(Head(s)))

toLowerCase(s) == [k \in DOMAIN s |-> IF s[k] = "A" THEN "a" ELSE s[k]]
toUpperCase(c) == IF c = "a" THEN "A" ELSE c

\* .replace(/-(.)/g, (match, group1) => group1.toUpperCase())
RECURSIVE ReplaceDashes(_)
ReplaceDashes(s) ==
    IF s = <<>> THEN <<>>
    ELSE IF Head(s) = "-" /\ Len(s) >= 2
    THEN <<toUpperCase(s[2])>> \o ReplaceDashes(SubSeq(s, 3, Len(s)))
    ELSE <<Head(s)>> \o ReplaceDashes(Tail(s))

camelCase(input) ==
    IF IndexOfDash(input, 0) > 1
    THEN ReplaceDashes(toLowerCase(input))
    ELSE input

\* args[key] turned into text by replace(): "undefined" for a missing key
Lookup(args, key) ==
    IF \E k \in DOMAIN args : args[k].key = key
    THEN (CHOOSE pr \in {args[k] : k \in DOMAIN args} : pr.key = key).value
    ELSE "undefined"

\* the first "}" after position p, 0 if there is none
NextClose(s, p) ==
    LET qs == {q \in (p + 1)..Len(s) : s[q] = "}"}
    IN IF qs = {} THEN 0 ELSE CHOOSE q \in qs : \A r \in qs : q <= r

\* command.replace(/{args\.([^}]+)}/g, (_, group) => args[camelCase(group)])
\* from position p on: a match is "{args.", one or more characters other
\* than "}", and the first "}" after them
RECURSIVE ReplacePlaceholders(_, _, _)
ReplacePlaceholders(command, p, args) ==
    IF p > Len(command) THEN <<>>
    ELSE LET q == NextClose(command, p) IN
         IF command[p] = OpenArgs /\ q > p + 1
         THEN <<Lookup(args, camelCase(SubSeq(command, p + 1, q - 1)))>>
                \o ReplacePlaceholders(command, q + 1, args)
         ELSE <<command[p]>> \o ReplacePlaceholders(command, p + 1, args)

\* `--${a}=${args[a]}`
Flag(pr) == <<"-", "-">> \o pr.key \o <<"=", pr.value>>

\* Object.keys(args).map(..).join(' ')
RECURSIVE JoinFlags(_)
JoinFlags(args) ==
    IF args = <<>> THEN <<>>
    ELSE IF Len(args) = 1 THEN Flag(args[1])
    ELSE Flag(Head(args)) \o <<" ">> \o JoinFlags(Tail(args))

\* command.indexOf('{args.') > -1
HasOpenArgs(command) == \E k \in DOMAIN command : command[k] = OpenArgs

transformCommand(command, args, forwardAllArgs) ==
    IF HasOpenArgs(command)
    THEN ReplacePlaceholders(command, 1, args)
    ELSE IF Len(args) > 0 /\ forwardAllArgs
    THEN command \o <<" ">> \o JoinFlags(args)
    ELSE command

\* ---- a call of transformCommand as a system --------------------------------
RenderInit ==
    /\ caller = "render"
    /\ render \in [command : Commands, args : ArgMaps,
                   forwardAllArgs : BOOLEAN, out : {<<>>}]
    /\ n = 0
    /\ maxConcurrency = 0
    /\ poolPc = "idle"
    /\ mutableCollection = <<>>
    /\ cur = 0
    /\ available = 0
    /\ done = FALSE
    /\ listeners = <<>>
    /\ results = <<>>
    /\ finalPromise = Pending
    /\ values = [i \in Slots |-> NoVal]
    /\ remaining = 0
    /\ task = [i \in Slots |-> "new"]
    /\ taskVal = [i \in Slots |-> NoVal]
    /\ mq = <<>>
    /\ poolOut = Pending
    /\ startOrder = <<>>
    /\ firstSettled = 0
    /\ firstRejected = 0
    /\ startedAtReject = <<>>
    /\ given = NoOpts
    /\ opts = NoOpts
    /\ runPc = "idle"
    /\ runOut = Pending
    /\ proc = [i \in Slots |-> NoProc]
    /\ procLog = <<>>
    /\ warnings = <<>>
    /\ raceOut = Pending

\* the call returns
RenderCall ==
    /\ caller = "render"
    /\ render.out = <<>>
    /\ render' = [render EXCEPT !.out =
                    <<transformCommand(render.command, render.args,
                                       render.forwardAllArgs)>>]
    /\ UNCHANGED <<caller, poolVars, taskVars, mq, runVars>>

RenderNext == RenderCall

RenderSpec == RenderInit /\ [][RenderNext]_vars

\* ========================================================================
\* Properties of the pool
\* ========================================================================
RejectedTasks == {i \in 1..n : task[i] = "rejected"}

\* C1: in the bounded pool (maxConcurrency = N >= 1) the number of tasks
\* that have been started and have not yet settled never exceeds N, whatever
\* the order of completions and also when tasks reject.
C1_AtMostNRunning ==
    maxConcurrency >= 1 => Cardinality(Running) <= maxConcurrency

\* the limit is reached after a rejection, with items still queued behind
C1_Witness ==
    /\ maxConcurrency >= 1
    /\ Cardinality(Running) = maxConcurrency
    /\ RejectedTasks # {}
    /\ n > maxConcurrency + 1

\* C2: whenever the pool resolves, with or without maxConcurrency, its
\* result has one entry per input item and entry k is the value that the
\* task run on items[k] fulfilled with, whatever the completion order.
C2_ResultsInInputOrder ==
    poolOut.st = "resolved" =>
        /\ Len(poolOut.val) = n
        /\ \A k \in 1..n : task[k] = "fulfilled" /\ poolOut.val[k] = taskVal[k]

\* the bounded pool resolved although the tasks completed out of input order
\* with different values
C2_Witness ==
    /\ poolOut.st = "resolved"
    /\ maxConcurrency >= 1
    /\ n >= 2
    /\ firstSettled # 1
    /\ taskVal[1] # taskVal[2]

\* C3: in the bounded pool, once a task has rejected and the pool is
\* terminated, no item whose task had not been started at that moment is
\* started afterwards (not even counting as started an item that had already
\* been granted its slot).
C3_NoStartAfterRejection ==
    (maxConcurrency >= 1 /\ startedAtReject # <<>>) =>
        Started \subseteq startedAtReject[1]

\* C4: when tasks reject in the bounded pool, the pool rejects with the
\* error of the first task that rejected and never resolves; once decided
\* the outcome never changes, and the pool takes no started task out of its
\* running state: a running task leaves that state only by settling itself.
C4_State ==
    (maxConcurrency >= 1 /\ RejectedTasks # {}) =>
        /\ poolOut.st # "resolved"
        /\ finalPromise.st # "resolved"
        /\ poolOut.st = "rejected" =>
             poolOut.val = TaskErr(firstRejected)

C4_Step ==
    /\ poolOut.st # "pending" => poolOut' = poolOut
    /\ \A i \in 1..n :
         (task[i] = "running" /\ task'[i] # "running") =>
            /\ task'[i] \in {"fulfilled", "rejected"}
            /\ firstSettled' = First(firstSettled, i)

C4_FirstRejectionWins == [](C4_State) /\ [][C4_Step]_vars

\* the pool has rejected, two tasks rejected, and a task started before the
\* outcome was decided is still running
C4_Witness ==
    /\ maxConcurrency >= 1
    /\ poolOut.st = "rejected"
    /\ Cardinality(RejectedTasks) >= 2
    /\ Running # {}


\* ========================================================================
\* Properties of the executor
\* ========================================================================
\* the mode a call of the executor has taken
Mode == IF runPc = "idle" THEN "none" ELSE RunPath

NoneSpawned == \A i \in Slots : proc[i].st = "none"

\* C5: in Serial mode the commands run strictly in input order without
\* overlap; the first command that exits non-zero raises and no command
\* after it is started; success = true only if every command ran and none
\* raised.
C5_SerialInOrderAbortsOnFailure ==
    Mode = "serial" =>
        /\ \A j \in 1..Len(procLog) :
             /\ procLog[j].k = (j + 1) \div 2
             /\ procLog[j].ev = (IF j % 2 = 1 THEN "start" ELSE "exit")
        /\ \A j \in 1..(Len(procLog) - 1) : procLog[j].code = 0
        /\ Cardinality({i \in Slots : proc[i].st = "running"}) <= 1
        /\ runOut.st = "rejected" <=>
             (procLog # <<>> /\ procLog[Len(procLog)].code # 0)
        /\ runOut.st = "resolved" =>
             /\ runOut.val.success
             /\ Len(procLog) = 2 * n
             /\ \A i \in 1..n : proc[i].st = "closed" /\ proc[i].code = 0

\* [A, B, C] where B exits non-zero: A completed, B raised, C never started
C5_Witness ==
    /\ Mode = "serial"
    /\ n = 3
    /\ proc[1].st = "closed" /\ proc[1].code = 0
    /\ proc[2].st = "closed" /\ proc[2].code # 0
    /\ proc[3].st = "none"
    /\ runOut.st = "rejected"

\* the commands whose process closed with a non-zero code, in input order
NonZero(k) == proc[k].code # 0
FailedCommands == SelectSeq([k \in 1..n |-> k], NonZero)

\* C6: in Parallel-Bounded mode (parallel, no readyWhen) a false outcome is
\* not fatal: when the run returns, every command was started and has
\* terminated, success is true exactly when every outcome is true, and
\* there is exactly one warning, naming the command, per false outcome; the
\* run raises only when a task rejected, never for a false outcome.
C6_FailuresAreWarnings ==
    Mode = "pool" =>
        /\ runOut.st = "resolved" =>
             /\ \A i \in 1..n : proc[i].st = "closed"
             /\ runOut.val.success = (\A i \in 1..n : proc[i].code = 0)
             /\ warnings = [j \in 1..Len(FailedCommands) |->
                              Warning(Names[FailedCommands[j]])]
        /\ runOut.st = "rejected" => \E i \in 1..n : task[i] = "rejected"
        /\ runOut.st = "pending" => warnings = <<>>

\* a bounded run that returned success = false with two failed commands
C6_Witness ==
    /\ Mode = "pool"
    /\ maxConcurrency >= 1
    /\ n > maxConcurrency
    /\ runOut = Success(FALSE)
    /\ Len(FailedCommands) >= 2
    /\ \E i \in 1..n : proc[i].code = 0

\* C7: in Parallel-Race mode all commands are launched at once whatever
\* maxParallel is (the pool is not used), the run completes as soon as the
\* first outcome settles, success is that first-settled outcome, and later
\* outcomes never change the result.
C7_State ==
    Mode = "race" =>
        /\ poolPc = "idle"
        /\ \A i \in 1..n : task[i] # "new" /\ proc[i].st # "none"
        /\ runOut.st = "resolved" =>
             /\ firstSettled # 0
             /\ task[firstSettled] = "fulfilled"
             /\ runOut.val.success = taskVal[firstSettled].result
        /\ runOut.st = "rejected" =>
             /\ firstSettled # 0
             /\ task[firstSettled] = "rejected"
        /\ (firstSettled # 0 /\ mq = <<>>) => runOut.st # "pending"

C7_Step == runOut.st # "pending" => runOut' = runOut

C7_RaceFirstSettledWins == [](C7_State) /\ [][C7_Step]_vars

\* maxParallel = 1, the second command settled first and decided the run,
\* the first command settled afterwards
C7_Witness ==
    /\ Mode = "race"
    /\ opts.maxParallel = 1
    /\ n >= 2
    /\ runOut.st = "resolved"
    /\ firstSettled = 2
    /\ task[1] = "fulfilled"

BadCombination ==
    /\ runPc # "idle"
    /\ ~given.parallel
    /\ given.readyWhen \/ given.maxParallel # 0

\* C8 as stated: whenever parallel is false and readyWhen or maxParallel is
\* present, the run fails with a configuration error and no child process is
\* spawned.
C8_AlwaysConfigurationError ==
    BadCombination =>
        /\ runOut.st = "rejected"
        /\ HasPrefix(runOut.val, BadConfigPrefix)
        /\ NoneSpawned

\* C8 amended: whenever parallel is false and readyWhen or maxParallel is
\* present, the run fails and no child process is spawned; the failure is
\* the configuration error of the offending option, unless a named
\* environment file fails to load, in which case it is that load error.
C8_FailsBeforeSpawning ==
    BadCombination =>
        /\ runOut.st = "rejected"
        /\ NoneSpawned
        /\ runOut.val = (IF given.envFile = "missing" THEN EnvFileError
                         ELSE IF given.readyWhen THEN ReadyWhenError
                         ELSE MaxParallelError)

\* maxParallel without parallel, commands to run, environment file loaded
C8_Witness ==
    /\ BadCombination
    /\ ~given.readyWhen
    /\ given.commands >= 2
    /\ given.envFile = "ok"
    /\ runOut = Rejected(MaxParallelError)

\* C9: with an empty commands list a run in any parallel mode (unbounded,
\* bounded, race) completes at once, i.e. without waiting for anything but
\* its own pending reactions, with success = true, and spawns no process.
C9_EmptyParallelSucceeds ==
    (/\ runPc # "idle"
     /\ given.parallel /\ ~given.command /\ given.commands = 0
     /\ given.envFile # "missing"
     /\ mq = <<>>) =>
        /\ runOut = Success(TRUE)
        /\ NoneSpawned

C11_State ==
    Mode = "pool" =>
        \A i \in 1..n :
          /\ proc[i].st = "running" => task[i] = "running"
          /\ proc[i].st = "closed" =>
               /\ task[i] = "fulfilled"
               /\ taskVal[i].result = (proc[i].code = 0)

C11_Step ==
    \A i \in 1..n :
       task[i] = "fulfilled" =>
          task'[i] = "fulfilled" /\ taskVal'[i] = taskVal[i]

C11_SettlesOnExitOnly == [](C11_State) /\ [][C11_Step]_vars

\* one command exited 1 and resolved false, one exited 0 and resolved true,
\* a third is still running and unsettled
C11_Witness ==
    /\ Mode = "pool"
    /\ \E i, j, k \in 1..n :
         /\ proc[i].st = "closed" /\ proc[i].code = 1
         /\ taskVal[i] = Outcome(i, FALSE)
         /\ proc[j].st = "closed" /\ proc[j].code = 0
         /\ taskVal[j] = Outcome(j, TRUE)
         /\ proc[k].st = "running" /\ task[k] = "running"

\* C12: a command run with a readiness marker has outcome true as soon as a
\* chunk of its stdout or stderr contains the marker, whatever the exit
\* code; and outcome false when its process exits non-zero without the
\* marker ever having been observed.
C12_MarkerOrFailedExit ==
    Mode = "race" =>
        \A i \in 1..n :
          /\ proc[i].seen =>
               task[i] = "fulfilled" /\ taskVal[i] = Outcome(i, TRUE)
          /\ (proc[i].st = "closed" /\ proc[i].code # 0 /\ ~proc[i].seen) =>
               task[i] = "fulfilled" /\ taskVal[i] = Outcome(i, FALSE)

\* ========================================================================
\* Properties of the options normalizer
\* ========================================================================
\* no part of a parallel mode has been entered: no pool, no race, no child
\* of createProcess
NeverParallel ==
    /\ poolPc = "idle"
    /\ raceOut.st = "pending"
    /\ \A i \in Slots : ~proc[i].hook /\ task[i] = "new"

\* what a run with the single `command` option does once normalized
CommandRunsSerially ==
    /\ ~opts.parallel
    /\ IF given.readyWhen \/ given.maxParallel # 0
       THEN /\ runOut.st = "rejected"
            /\ HasPrefix(runOut.val, BadConfigPrefix)
            /\ NoneSpawned
       ELSE /\ Mode = "serial"
            /\ n = 1
            /\ \A i \in Slots : proc[i].st # "none" => i = 1

\* C13 as stated: whenever `command` is supplied, parallel is forced to
\* false whatever the caller passed; the run never enters a parallel mode,
\* runs that command serially, and is rejected as a configuration error
\* before any spawn if readyWhen or maxParallel is supplied too.
C13_CommandAlwaysSerial ==
    (given.command /\ runPc # "idle") =>
        NeverParallel /\ CommandRunsSerially

\* C13 amended: the same, except that when a named environment file fails
\* to load the run fails with that load error before the options are
\* normalized (still without entering a parallel mode or spawning).
C13_CommandForcesSerial ==
    (given.command /\ runPc # "idle") =>
        /\ NeverParallel
        /\ IF given.envFile = "missing"
           THEN runOut = Rejected(EnvFileError) /\ NoneSpawned
           ELSE CommandRunsSerially

\* command given together with parallel = true: it ran alone, serially
C13_Witness ==
    /\ given.command /\ given.parallel
    /\ Mode = "serial"
    /\ proc[1].st = "closed"
    /\ runOut = Success(TRUE)

\* ========================================================================
\* Properties of the bounded pool's slot accounting and scheduling
\* ========================================================================
\* the pool is past its two early returns: `available` and `done` exist
Bounded == maxConcurrency >= 1 /\ n >= 1 /\ poolPc # "idle"

\* items that took a slot by decrementing `available`: everything admitted
\* before `done` was set by a rejection
Acquired ==
    IF startedAtReject = <<>> THEN Started \cup Granted
    ELSE startedAtReject[1]

\* items whose .then success handler has run
Succeeded == {results[k][2] : k \in DOMAIN results}

\* rejected tasks whose .catch handler has run
HandledFailures ==
    {i \in 1..n : /\ task[i] = "rejected"
                  /\ \A k \in DOMAIN mq :
                       mq[k].i = i => mq[k].t \notin {"then", "catch"}}

\* C15: every completion of a running task, by success or by failure,
\* gives its slot back: the admission count has been increased by one for
\* each task whose success handler or failure handler has run.
C15_EveryCompletionReleases ==
    Bounded =>
        available = maxConcurrency - Cardinality(Acquired)
                      + Cardinality(Succeeded) + Cardinality(HandledFailures)

\* C17: in the bounded pool 0 <= available <= maxConcurrency in every
\* reachable state, whatever the interleaving of fulfilments and rejections,
\* the item admitted through the `done` branch included.
C17_AvailableInRange ==
    Bounded => available \in 0..maxConcurrency

\* an item admitted through the `done` branch fulfilled after the rejection
\* and gave back a slot it never took: the counter is back at its maximum
C17_Witness ==
    /\ Bounded /\ n = MaxItems
    /\ startedAtReject # <<>>
    /\ \E i \in Succeeded : i \notin startedAtReject[2]
    /\ available = maxConcurrency

\* a pending pool with an item waiting for a slot and nothing left that
\* could wake it
Stuck ==
    /\ poolPc \notin {"idle", "returned"}
    /\ listeners # <<>>
    /\ Running = {}
    /\ mq = <<>>

C18_State ==
    /\ ~Stuck
    /\ poolOut.st = "resolved" =>
         /\ \A i \in 1..n : task[i] = "fulfilled"
         /\ Len(startOrder) = n
         /\ \A i \in 1..n : \E k \in DOMAIN startOrder : startOrder[k] = i
    /\ poolOut.st = "rejected" => RejectedTasks # {}

\* C18: if every started task eventually settles the pool eventually
\* settles, and it is never stuck pending with an item waiting for a slot
\* while no task runs; it resolves only when every item's task was started
\* once and fulfilled and rejects only when some started task rejected, so
\* the settled outcome is resolved exactly in the first case and rejected
\* exactly in the second.
C18_PoolSettles ==
    /\ [](C18_State)
    /\ <>(poolOut.st # "pending")
    /\ (RejectedTasks # {}) ~> (poolOut.st = "rejected")

\* a bounded pool that rejected while a task admitted later still runs
C18_Witness ==
    /\ Bounded /\ n = MaxItems
    /\ poolOut.st = "rejected"
    /\ Running # {}
    /\ \E i \in 1..n : task[i] = "new"

\* C19: tasks are started in input order and each at most once (item k is
\* started only after every item before it), and at most one item is
\* registered as waiting for a slot at any time.
C19_StartsInInputOrder ==
    /\ startOrder = [k \in 1..Len(startOrder) |-> k]
    /\ Len(listeners) <= 1

\* three items started one by one through the slot of a bounded pool, the
\* second one finishing first
C19_Witness ==
    /\ maxConcurrency = MaxConc /\ n = MaxItems
    /\ startOrder = [k \in 1..MaxItems |-> k]
    /\ firstSettled = 2

\* tasks started after the pool handled the first rejection
StartedAfterReject == Started \ startedAtReject[2]

\* the item whose admission was in progress when the pool handled the first
\* rejection: waiting for a slot, or granted one and not started yet
BeingAdmitted ==
    (startedAtReject[1] \ startedAtReject[2]) \cup startedAtReject[3]

Parallel == Mode \in {"race", "pool"}

\* the overall outcome of the run, of the race or of the pool is decided
\* in this step
Decides ==
    \/ runOut.st = "pending" /\ runOut'.st # "pending"
    \/ raceOut.st = "pending" /\ raceOut'.st # "pending"
    \/ poolOut.st = "pending" /\ poolOut'.st # "pending"

C16_State ==
    Parallel =>
        \A i \in Slots :
          /\ proc[i].st \in {"running", "closed", "killed"} => proc[i].hook
          /\ proc[i].st = "killed" => runPc = "exited"

C16_Step ==
    Parallel =>
        /\ Decides => proc' = proc
        /\ \A i \in Slots :
             (proc[i].st = "running" /\ proc'[i].st # "running") =>
                 \/ proc'[i].st = "closed"
                 \/ proc'[i].st = "killed" /\ runPc' = "exited"

\* C16: every child of createProcess carries the kill-on-parent-exit hook
\* from its spawn on, whether or not its outcome has settled; a child is
\* killed only when the orchestrator process exits; and the step that
\* decides the outcome of a race or of a pool run leaves every process as
\* it is, the still-running siblings running.
C16_KilledOnlyOnParentExit == [](C16_State) /\ [][C16_Step]_vars

\* a race was decided by one child while a sibling kept running, until the
\* orchestrator exited and the hook killed it
C16_Witness ==
    /\ Mode = "race" /\ runPc = "exited"
    /\ runOut = Success(TRUE)
    /\ \E i, j \in 1..n :
         /\ proc[i].st = "killed" /\ task[i] = "running"
         /\ proc[j].st = "closed" /\ task[j] = "fulfilled"

\* ========================================================================
\* Properties of command templating
\* ========================================================================
\* the camel-cased name: every dash dropped and the character after it in
\* upper case, the other characters as they are or in lower case
CamelForm(name, lower) ==
    IF lower THEN ReplaceDashes(toLowerCase(name)) ELSE ReplaceDashes(name)

\* every placeholder replaced by the value of its camel-cased name
RECURSIVE ReplacedByCamel(_, _, _, _)
ReplacedByCamel(command, p, args, lower) ==
    IF p > Len(command) THEN <<>>
    ELSE LET q == NextClose(command, p) IN
         IF command[p] = OpenArgs /\ q > p + 1
         THEN <<Lookup(args, CamelForm(SubSeq(command, p + 1, q - 1), lower))>>
                \o ReplacedByCamel(command, q + 1, args, lower)
         ELSE <<command[p]>> \o ReplacedByCamel(command, p + 1, args, lower)

\* C14: render takes exactly one of three branches. A command with an
\* {args.<name>} placeholder has every occurrence replaced by the argMap
\* value of the camel-cased name and nothing appended; otherwise, with
\* forwardAllArgs true and a non-empty argMap, the command is followed by
\* --key=value for every pair in map order, joined by single spaces;
\* otherwise the command is returned unchanged.
C14_RenderBranches ==
    render.out # <<>> =>
        LET command == render.command
            args == render.args
        IN IF HasOpenArgs(command)
           THEN render.out[1] \in {ReplacedByCamel(command, 1, args, TRUE),
                                   ReplacedByCamel(command, 1, args, FALSE)}
           ELSE IF render.forwardAllArgs /\ args # <<>>
           THEN render.out[1] = command \o <<" ">> \o JoinFlags(args)
           ELSE render.out[1] = command

====
